---- MODULE Spec2Model ----
(***************************************************************************)
(* A model of the request pipeline of ytBot.py: validate_url,              *)
(* log_user_activity, update_progress, download_audio and handle_message.  *)
(*                                                                         *)
(* Strings that the code inspects character by character (the message     *)
(* text, the locator) are sequences of one-character strings.  Every      *)
(* `await` of a handler is one action: the action does the synchronous    *)
(* code that follows the previous await and the awaited call itself.      *)
(* What the environment decides (whether a reply, a send, an open or a    *)
(* write raises; what the extraction tool reports) is chosen with \E.     *)
(* Runs of handle_message for different messages interleave at their      *)
(* awaits, as coroutines on one event loop do; whether the dispatcher     *)
(* starts a run before the previous one has finished is its own           *)
(* configuration, and the model allows it.                                *)
(* The one call that keeps the event loop's thread between two awaits,    *)
(* extract_info at line 120, is two steps (call and return); no handler   *)
(* is started or resumed between them.                                    *)
(***************************************************************************)
EXTENDS Integers, Sequences, FiniteSets, TLC

VARIABLES
    loc,        \* validator harness: the components of the string under test
    vpc,        \* validator harness: "idle" | "called" | "returned"
    vret,       \* validator harness: what validate_url returned
    pc,         \* per request: the await point handle_message is at
    update,     \* per request: the Update object handed to handle_message
    youtube_link,           \* per request: local of handle_message (line 146)
    final_audio_file_path,  \* per request: local of download_audio (line 86/122)
    coros,      \* per request: coroutine objects made by progress_hook calls
    audio_file, \* per request: the handle opened at line 160
    attempt,    \* per request: loop variable of line 162
    sends,      \* per request: the send_audio calls made, in order
    replies,    \* per request: the texts reply_text delivered, in order
    log_calls,  \* per request: each log_user_activity call: its status, and
                \* whether it wrote its row
    fs,         \* the artifact directory: path -> content or NoFile
    downloads_log,  \* downloads_log.csv: [exists, lines]
    progress_out    \* progress harness: each update_progress call made: its
                    \* sample and what the call did

vars == <<loc, vpc, vret, pc, update, youtube_link, final_audio_file_path,
          coros, audio_file, attempt, sends, replies, log_calls, fs,
          downloads_log, progress_out>>

validatorVars == <<loc, vpc, vret>>

\* What a step of the pipeline leaves alone
harnessVars == <<loc, vpc, vret, progress_out>>

pipelineVars == <<pc, update, youtube_link, final_audio_file_path, coros,
                  audio_file, attempt, sends, replies, log_calls, fs,
                  downloads_log>>

----------------------------------------------------------------------------
(* Character data *)

Range(s) == { s[i] : i \in 1..Len(s) }

HttpScheme == <<"h","t","t","p",":","/","/">>
HttpsScheme == <<"h","t","t","p","s",":","/","/">>
HtpScheme == <<"h","t","p",":","/","/">>
WwwDot == <<"w","w","w",".">>
Youtube == <<"y","o","u","t","u","b","e">>
Youtu == <<"y","o","u","t","u">>
YoutubeNocookie == <<"y","o","u","t","u","b","e","-","n","o","c","o","o","k","i","e">>
Vimeo == <<"v","i","m","e","o">>
Com == <<"c","o","m">>
Be == <<"b","e">>
WatchV == <<"w","a","t","c","h","?","v","=">>
EmbedSlash == <<"e","m","b","e","d","/">>
VSlash == <<"v","/">>
QueryV == <<"?","v","=">>
IdChars == <<"d","Q","w","4","w","9","W","g","X","c","Q","X">>
ListTail == <<"&","l","i","s","t","=","P","L","1","2","3">>
TimeTail == <<"?","t","=","1","0">>
NoChars == << >>

----------------------------------------------------------------------------
(* validate_url, ytBot.py lines 25-34 *)

\* url.split('?')[0]: the part of url before its first "?"
RECURSIVE SplitQuery0(_)
SplitQuery0(url) ==
    IF url = << >> THEN << >>
    ELSE IF Head(url) = "?" THEN << >>
    ELSE <<Head(url)>> \o SplitQuery0(Tail(url))

\* The end positions of literal lit matched in s from a start position in P.
MatchLit(s, P, lit) ==
    { p + Len(lit) : p \in { q \in P : /\ q + Len(lit) <= Len(s)
                                       /\ SubSeq(s, q + 1, q + Len(lit)) = lit } }

\* (a|b|...) over literals
MatchAlt(s, P, lits) == UNION { MatchLit(s, P, l) : l \in lits }

\* `.+` : one or more characters other than a line break
MatchAnyPlus(s, P) ==
    { e \in 1..Len(s) : \E p \in P : /\ p < e
                                     /\ \A i \in (p + 1)..e : s[i] # "\n" }

\* The characters [^&=%\?] excludes
IdExcluded == {"&", "=", "%", "?"}

\* The {11} of the identifier group
IdLength == 11

\* [^&=%\?]{11}
MatchId(s, P) ==
    { p + IdLength : p \in { q \in P : /\ q + IdLength <= Len(s)
                                       /\ \A i \in (q + 1)..(q + IdLength) :
                                              s[i] \notin IdExcluded } }

\* (&.*)?$ : the end of s, or "&" and then anything up to the end of s
MatchTail(s, P) ==
    \E p \in P :
        \/ p = Len(s)
        \/ /\ p < Len(s)
           /\ s[p + 1] = "&"
           /\ \A i \in (p + 2)..Len(s) : s[i] # "\n"

\* re.fullmatch(youtube_regex, s)
FullMatch(s) ==
    LET p1 == {0} \cup MatchAlt(s, {0}, {HttpScheme, HttpsScheme})
        p2 == p1 \cup MatchLit(s, p1, WwwDot)
        p3 == MatchAlt(s, p2, {Youtube, Youtu, YoutubeNocookie})
        p4 == MatchLit(s, p3, <<".">>)
        p5 == MatchAlt(s, p4, {Com, Be})
        p6 == MatchLit(s, p5, <<"/">>)
        p7 == p6 \cup MatchAlt(s, p6, {WatchV, EmbedSlash, VSlash})
                 \cup MatchLit(s, MatchAnyPlus(s, p6), QueryV)
        p8 == MatchId(s, p7)
    IN  MatchTail(s, p8)

\* A validator that lets every string through
AcceptAll(url) == TRUE

validate_url(url) == FullMatch(SplitQuery0(url))

----------------------------------------------------------------------------
(* The strings validate_url is applied to, built from their components *)

Schemes == {NoChars, HttpScheme, HttpsScheme, HtpScheme}
Wwws == {NoChars, WwwDot}
Domains == {Youtube, Youtu, YoutubeNocookie, Vimeo}
Tlds == {Com, Be}
Prefixes == {NoChars, WatchV, EmbedSlash, VSlash}
IdLengths == {5, 9, 10, 11, 12}
Tails == {NoChars, ListTail, TimeTail}

Locators ==
    [scheme : Schemes, www : Wwws, domain : Domains, tld : Tlds,
     prefix : Prefixes, idlen : IdLengths, tail : Tails]

Assemble(l) ==
    l.scheme \o l.www \o l.domain \o <<".">> \o l.tld \o <<"/">>
        \o l.prefix \o SubSeq(IdChars, 1, l.idlen) \o l.tail

----------------------------------------------------------------------------
(* The requests, the messages and the extraction tool's world *)

\* Two inbound messages, each handled by its own run of handle_message.
Req == {"r1", "r2"}

None == "None"

\* from_user of each message: r1's sender has a username, r2's has none.
FromUser(r) ==
    IF r = "r1" THEN [username |-> "alice", first_name |-> "Alice"]
    ELSE [username |-> None, first_name |-> "Bob"]

ShortLink ==
    [scheme |-> HttpsScheme, www |-> NoChars, domain |-> Youtu, tld |-> Be,
     prefix |-> NoChars, idlen |-> 11, tail |-> NoChars]

VimeoLink ==
    [scheme |-> HttpsScheme, www |-> NoChars, domain |-> Vimeo, tld |-> Com,
     prefix |-> NoChars, idlen |-> 5, tail |-> NoChars]

WatchLink ==
    [scheme |-> HttpsScheme, www |-> WwwDot, domain |-> Youtube, tld |-> Com,
     prefix |-> WatchV, idlen |-> 11, tail |-> ListTail]

\* The message texts sent to the bot; one carries surrounding blanks.
Texts ==
    { Assemble(ShortLink), <<" ">> \o Assemble(VimeoLink) \o <<" ">>,
      Assemble(WatchLink) }

NoMessage == [text |-> << >>, from_user |-> [username |-> None, first_name |-> None]]

\* An Update whose message is None (an edited message, a channel post) has
\* has_message FALSE.
Updates(r) ==
    { [has_message |-> FALSE, message |-> NoMessage] }
        \cup { [has_message |-> TRUE,
                message |-> [text |-> t, from_user |-> FromUser(r)]] : t \in Texts }

NoUpdate == [has_message |-> FALSE, message |-> NoMessage]

\* str.strip(): leading and trailing blanks removed
RECURSIVE LStrip(_)
LStrip(s) == IF s # << >> /\ Head(s) = " " THEN LStrip(Tail(s)) ELSE s

RECURSIVE RStrip(_)
RStrip(s) ==
    IF s # << >> /\ s[Len(s)] = " " THEN RStrip(SubSeq(s, 1, Len(s) - 1)) ELSE s

Strip(s) == RStrip(LStrip(s))

\* update.message.from_user.username or update.message.from_user.first_name
Username(u) ==
    IF u.message.from_user.username # None
    THEN u.message.from_user.username
    ELSE u.message.from_user.first_name

\* The title the extraction tool knows for a video; the video is named by
\* the locator, so the same locator has the same title.
VideoTitle(link) == "Never Gonna Give You Up"

\* info_dict as extract_info returns it
ExtractInfoResults(link) == { [title |-> VideoTitle(link)] }

\* info_dict.get('title', 'unknown_title')
InfoTitle(info) ==
    IF "title" \in DOMAIN info THEN info.title ELSE "unknown_title"

NoPath == [dir |-> "", name |-> "", ext |-> ""]

\* os.path.join(CURRENT_DIR, "downloaded_audio"), line 86
DefaultAudioPath == [dir |-> "CURRENT_DIR", name |-> "downloaded_audio", ext |-> ""]

\* os.path.join(CURRENT_DIR, f"{title}.mp3"), line 122
AudioPath(title) == [dir |-> "CURRENT_DIR", name |-> title, ext |-> "mp3"]

\* outtmpl '%(title)s.%(ext)s' after the mp3 postprocessor, lines 101-109
OutTmplPath(title) == [dir |-> "CURRENT_DIR", name |-> title, ext |-> "mp3"]

ArtifactPaths ==
    { AudioPath(VideoTitle(Strip(t))) : t \in Texts } \cup {DefaultAudioPath}

NoFile == [exists |-> FALSE, data |-> << >>]

\* The number of bytes of an artifact
ArtifactLen == 2

\* What the download of request r writes: every byte names its writer.
Artifact(r) == [exists |-> TRUE, data |-> [i \in 1..ArtifactLen |-> r]]

\* os.path.exists / os.path.isfile
PathExists(files, path) == path \in DOMAIN files /\ files[path].exists

\* The progress samples the tool hands to its progress hooks
ProgressSamples ==
    { [status |-> "downloading", downloaded_bytes |-> 1, total_bytes |-> 2],
      [status |-> "downloading", downloaded_bytes |-> 2, total_bytes |-> 2] }

\* The most samples one download reports
MaxSamples == 2

ClosedFile == [open |-> FALSE, path |-> NoPath, pos |-> 0]

\* The texts of the replies
InvalidLinkText == "Error: Please send a valid YouTube link."
StartedText == "Download started. Please wait..."
NotFoundText == "Error: Audio file not found after download."
UnableText == "Error: Unable to download the audio."
CompleteText == "Download complete. Sending audio file..."
SendFailedText == "Error: Failed to send the audio file. Please try again later."
DownloadFailedText == "Error: Failed to download the audio. The video might be unavailable or restricted."
UnexpectedText == "Error: An unexpected error occurred. Please try again later."

----------------------------------------------------------------------------
(* log_user_activity, ytBot.py lines 37-56 *)

HeaderRow == [kind |-> "header"]

\* 'Success' if success else 'Failure', line 44
StatusText(success) == IF success THEN "Success" ELSE "Failure"

\* row, line 47; the timestamp field is left out: no claim reads the clock
DataRow(username, link, success) ==
    [kind |-> "row", username |-> username, link |-> link,
     status |-> StatusText(success)]

\* open(log_csv_path, mode='a'): append mode creates a missing file
OpenAppend(log) == [log EXCEPT !.exists = TRUE]

\* The file after log_user_activity(username, link, success) returns.  io is
\* what the file system does: "ok", or "raises" (aiofiles.open raises and
\* the except of line 55 swallows it).
log_user_activity(log, username, link, success, io) ==
    IF username = "" \/ username = None \/ link = << >>
    THEN log
    ELSE IF io = "raises"
    THEN log
    ELSE LET f == OpenAppend(log)
             withHeader ==
                 IF ~f.exists THEN Append(f.lines, HeaderRow) ELSE f.lines
         IN  [f EXCEPT !.lines = Append(withHeader, DataRow(username, link, success))]

IoOutcomes == {"ok", "raises"}

----------------------------------------------------------------------------
(* update_progress, ytBot.py lines 59-80 *)

\* The value of a key of the sample dict: the key is missing, or it holds
\* None, or it holds a number of bytes.
AbsentV == [kind |-> "absent", val |-> 0]
NoneV == [kind |-> "None", val |-> 0]
Bytes(n) == [kind |-> "int", val |-> n]

\* d.get(key, default)
Get(v, default) == IF v = AbsentV THEN default ELSE v

\* A test of line 65 that compares with 0 only: `d.get('total_bytes') != 0`
TruthyNotZero(v) == v # Bytes(0)

\* The truth value Python gives v in `... and d.get('total_bytes')`
Truthy(v) == v # NoneV /\ v # Bytes(0)

\* percent of line 73, kept exact: num / den
NoPercent == [num |-> 0, den |-> 0]
Percent(downloaded_bytes, total_bytes) ==
    [num |-> downloaded_bytes * 100, den |-> total_bytes]

NoReply == [text |-> "", percent |-> NoPercent]
ProgressReply(percent) == [text |-> "Download progress: ", percent |-> percent]

\* What one call of update_progress(d, update) does: whether an exception
\* left it, the percent it computed, the reply that reached the user and the
\* error it logged.  has_message is update.message being there; io is what
\* reply_text does, "ok" or "raises".
update_progress(d, has_message, io) ==
    LET quiet == [raised |-> FALSE, percent |-> NoPercent, reply |-> NoReply,
                  error |-> ""]
    IN  IF ~d.is_dict \/ d.status = "absent"
        THEN [quiet EXCEPT !.error = "Invalid progress data received."]
        ELSE IF d.status = "downloading" /\ Truthy(Get(d.total_bytes, NoneV))
        THEN LET downloaded_bytes == Get(d.downloaded_bytes, Bytes(0))
                 total_bytes == Get(d.total_bytes, NoneV)
             IN  IF total_bytes = Bytes(0)
                 THEN [quiet EXCEPT
                          !.error = "Total bytes is zero, cannot calculate progress."]
                 ELSE IF downloaded_bytes.kind # "int" \/ total_bytes.kind # "int"
                 THEN \* int / None: TypeError
                      [quiet EXCEPT !.raised = TRUE]
                 ELSE LET percent == Percent(downloaded_bytes.val, total_bytes.val)
                      IN  IF ~has_message
                          THEN [quiet EXCEPT !.percent = percent]
                          ELSE IF io = "raises"
                          THEN [quiet EXCEPT
                                   !.percent = percent,
                                   !.error = "Error sending progress message"]
                          ELSE [quiet EXCEPT !.percent = percent,
                                             !.reply = ProgressReply(percent)]
        ELSE quiet

\* The largest byte count of a sample
MaxBytes == 2

\* The objects handed to update_progress as d: one that is no dict, and the
\* dicts the extraction tool documents for its progress hooks, with the keys
\* it may leave out or set to None.
SampleDicts ==
    { [is_dict |-> FALSE, status |-> "absent", downloaded_bytes |-> AbsentV,
       total_bytes |-> AbsentV] }
    \cup [is_dict : {TRUE},
          status : {"absent", "downloading", "finished"},
          downloaded_bytes : {AbsentV} \cup { Bytes(n) : n \in 0..MaxBytes },
          total_bytes : {AbsentV, NoneV} \cup { Bytes(n) : n \in 0..MaxBytes }]

\* The most calls of update_progress made for one request
MaxProgressCalls == 2

----------------------------------------------------------------------------
(* Initial state *)

InitValidator ==
    /\ loc = ShortLink
    /\ vpc = "idle"
    /\ vret = FALSE

InitPipeline ==
    /\ pc = [r \in Req |-> "idle"]
    /\ update = [r \in Req |-> NoUpdate]
    /\ youtube_link = [r \in Req |-> << >>]
    /\ final_audio_file_path = [r \in Req |-> NoPath]
    /\ coros = [r \in Req |-> << >>]
    /\ audio_file = [r \in Req |-> ClosedFile]
    /\ attempt = [r \in Req |-> 0]
    /\ sends = [r \in Req |-> << >>]
    /\ replies = [r \in Req |-> << >>]
    /\ log_calls = [r \in Req |-> << >>]
    /\ fs = [p \in ArtifactPaths |-> NoFile]
    /\ downloads_log = [exists |-> FALSE, lines |-> << >>]

InitProgress == progress_out = << >>

Init == InitValidator /\ InitPipeline /\ InitProgress

----------------------------------------------------------------------------
(* Helpers of the actions *)

\* The request whose synchronous code the event loop's thread is inside of,
\* between two awaits, for longer than a step: the extract_info call of
\* line 120.
LoopHeldBy(r) == pc[r] = "L120_running"

\* The event loop can start handle_message for a new update or resume a
\* handler at its await.
LoopFree == \A r \in Req : ~LoopHeldBy(r)

\* reply_text(text) returned: the text reached the user.
Replied(r, text) == replies' = [replies EXCEPT ![r] = Append(@, text)]

\* The call of log_user_activity at one of lines 151, 178, 188.
LogActivity(r, success, io) ==
    /\ downloads_log' =
           log_user_activity(downloads_log, Username(update[r]),
                             youtube_link[r], success, io)
    /\ log_calls' = [log_calls EXCEPT ![r] =
           Append(@, [status |-> StatusText(success),
                      written |-> downloads_log'.lines # downloads_log.lines])]

\* A logger with no except clause: the exception of the write reaches the
\* caller, whose own except clause is at line 190.
Propagate(io, next) == IF io = "raises" THEN "L192" ELSE next

\* Where the caller is after `await log_user_activity(...)`: the try/except
\* of lines 49-56 keeps the exception of the write inside the logger, so the
\* caller goes on at its next statement whatever the write did.
AfterLog(io, next) == next

\* Where handle_message goes when download_audio returns path (None: NoPath),
\* line 156.
AfterDownload(files, path) ==
    IF path # NoPath /\ PathExists(files, path) THEN "L157" ELSE "L185"

\* audio_file.read(): the bytes from the handle's position to the end
ReadAll(files, f) == SubSeq(files[f.path].data, f.pos + 1, Len(files[f.path].data))

\* A block that leaves the handle as it is on its way out
LeaveOpen(f) == f

\* The way out of `async with aiofiles.open(...) as audio_file`, line 160:
\* on the break, at the loop's end and on an exception alike, __aexit__
\* closes the handle.
AExit(f) == ClosedFile

\* range(3), line 162
MaxAttempts == 3

----------------------------------------------------------------------------
(* handle_message, ytBot.py lines 143-192, with download_audio, lines 83-140 *)

\* Lines 146-149 (and 86-115 of download_audio for a valid link): up to the
\* first await.
Receive(r) ==
    /\ pc[r] = "idle"
    /\ LoopFree
    /\ \E u \in Updates(r) :
        /\ update' = [update EXCEPT ![r] = u]
        /\ IF ~u.has_message
           THEN \* update.message.text raises AttributeError
                /\ pc' = [pc EXCEPT ![r] = "L192"]
                /\ UNCHANGED <<youtube_link, final_audio_file_path>>
           ELSE LET link == Strip(u.message.text)
                IN  /\ youtube_link' = [youtube_link EXCEPT ![r] = link]
                    /\ IF ~validate_url(link)
                       THEN /\ pc' = [pc EXCEPT ![r] = "L150"]
                            /\ UNCHANGED final_audio_file_path
                       ELSE /\ pc' = [pc EXCEPT ![r] = "L116"]
                            /\ final_audio_file_path' =
                                   [final_audio_file_path EXCEPT ![r] = DefaultAudioPath]
    /\ UNCHANGED <<coros, audio_file, attempt, sends, replies, log_calls, fs,
                   downloads_log>>
    /\ UNCHANGED harnessVars

\* Line 150
ReplyInvalid(r) ==
    /\ pc[r] = "L150"
    /\ LoopFree
    /\ \/ /\ Replied(r, InvalidLinkText)
          /\ pc' = [pc EXCEPT ![r] = "L151"]
       \/ /\ pc' = [pc EXCEPT ![r] = "L192"]
          /\ UNCHANGED replies
    /\ UNCHANGED <<update, youtube_link, final_audio_file_path, coros, audio_file,
                   attempt, sends, log_calls, fs, downloads_log>>
    /\ UNCHANGED harnessVars

\* Lines 151-152
LogInvalid(r) ==
    /\ pc[r] = "L151"
    /\ LoopFree
    /\ \E io \in IoOutcomes :
        /\ LogActivity(r, FALSE, io)
        /\ pc' = [pc EXCEPT ![r] = AfterLog(io, "done")]
    /\ UNCHANGED <<update, youtube_link, final_audio_file_path, coros, audio_file,
                   attempt, sends, replies, fs>>
    /\ UNCHANGED harnessVars

\* Line 116
ReplyStarted(r) ==
    /\ pc[r] = "L116"
    /\ LoopFree
    /\ \/ /\ Replied(r, StartedText)
          /\ pc' = [pc EXCEPT ![r] = "L120"]
       \/ /\ pc' = [pc EXCEPT ![r] = "L139"]
          /\ UNCHANGED replies
    /\ UNCHANGED <<update, youtube_link, final_audio_file_path, coros, audio_file,
                   attempt, sends, log_calls, fs, downloads_log>>
    /\ UNCHANGED harnessVars

\* Lines 119-120: the coroutine calls ydl.extract_info(youtube_url,
\* download=False) as an ordinary function: there is no await and no
\* to_thread, so the event loop's thread is inside that call until it returns.
ExtractInfoCall(r) ==
    /\ pc[r] = "L120"
    /\ LoopFree
    /\ pc' = [pc EXCEPT ![r] = "L120_running"]
    /\ UNCHANGED <<update, youtube_link, final_audio_file_path, coros, audio_file,
                   attempt, sends, replies, log_calls, fs, downloads_log>>
    /\ UNCHANGED harnessVars

\* Lines 120-125: extract_info returns or raises, then the download is
\* handed to a thread.
ExtractInfo(r) ==
    /\ pc[r] = "L120_running"
    /\ \/ \E info \in ExtractInfoResults(youtube_link[r]) :
            /\ final_audio_file_path' =
                   [final_audio_file_path EXCEPT ![r] = AudioPath(InfoTitle(info))]
            /\ pc' = [pc EXCEPT ![r] = "L125"]
       \/ /\ pc' = [pc EXCEPT ![r] = "L139"]
          /\ UNCHANGED final_audio_file_path
    /\ UNCHANGED <<update, youtube_link, coros, audio_file, attempt, sends,
                   replies, log_calls, fs, downloads_log>>
    /\ UNCHANGED harnessVars

\* The call of progress_hook(d), lines 88-89, by the tool: progress_hook is
\* an `async def`, so the call makes a coroutine object and runs none of its
\* body; the tool drops the object.
progress_hook(r, d) ==
    coros' = [coros EXCEPT ![r] = Append(@, [d |-> d, awaited |-> FALSE])]

\* The download thread reports a progress sample to its hooks, line 104.
ToolSample(r) ==
    /\ pc[r] = "L125"
    /\ Len(coros[r]) < MaxSamples
    /\ \E d \in ProgressSamples : progress_hook(r, d)
    /\ UNCHANGED <<pc, update, youtube_link, final_audio_file_path, audio_file,
                   attempt, sends, replies, log_calls, fs, downloads_log>>
    /\ UNCHANGED harnessVars

\* ydl.download returns or raises, line 125, then lines 127-134 and, when the
\* file is there, line 156.
DownloadReturn(r) ==
    /\ pc[r] = "L125"
    /\ LoopFree
    /\ coros' = [coros EXCEPT ![r] = << >>]
    /\ \/ \* the tool wrote its output file
          LET title == final_audio_file_path[r].name
              files == [fs EXCEPT ![OutTmplPath(title)] = Artifact(r)]
          IN  /\ fs' = files
              /\ pc' = [pc EXCEPT ![r] =
                            IF PathExists(files, final_audio_file_path[r])
                            THEN AfterDownload(files, final_audio_file_path[r])
                            ELSE "L133"]
       \/ \* the tool returned and left no file of that name
          /\ pc' = [pc EXCEPT ![r] =
                        IF PathExists(fs, final_audio_file_path[r])
                        THEN AfterDownload(fs, final_audio_file_path[r])
                        ELSE "L133"]
          /\ UNCHANGED fs
       \/ \* the tool raised
          /\ pc' = [pc EXCEPT ![r] = "L139"]
          /\ UNCHANGED fs
    /\ UNCHANGED <<update, youtube_link, final_audio_file_path, audio_file,
                   attempt, sends, replies, log_calls, downloads_log>>
    /\ UNCHANGED harnessVars

\* Lines 133-134
ReplyNotFound(r) ==
    /\ pc[r] = "L133"
    /\ LoopFree
    /\ \/ /\ Replied(r, NotFoundText)
          /\ pc' = [pc EXCEPT ![r] = AfterDownload(fs, NoPath)]
       \/ /\ pc' = [pc EXCEPT ![r] = "L139"]
          /\ UNCHANGED replies
    /\ UNCHANGED <<update, youtube_link, final_audio_file_path, coros, audio_file,
                   attempt, sends, log_calls, fs, downloads_log>>
    /\ UNCHANGED harnessVars

\* Lines 136-140
ReplyUnable(r) ==
    /\ pc[r] = "L139"
    /\ LoopFree
    /\ \/ /\ Replied(r, UnableText)
          /\ pc' = [pc EXCEPT ![r] = AfterDownload(fs, NoPath)]
       \/ /\ pc' = [pc EXCEPT ![r] = "L192"]
          /\ UNCHANGED replies
    /\ UNCHANGED <<update, youtube_link, final_audio_file_path, coros, audio_file,
                   attempt, sends, log_calls, fs, downloads_log>>
    /\ UNCHANGED harnessVars

\* Line 157
ReplyComplete(r) ==
    /\ pc[r] = "L157"
    /\ LoopFree
    /\ \/ /\ Replied(r, CompleteText)
          /\ pc' = [pc EXCEPT ![r] = "L160"]
       \/ /\ pc' = [pc EXCEPT ![r] = "L192"]
          /\ UNCHANGED replies
    /\ UNCHANGED <<update, youtube_link, final_audio_file_path, coros, audio_file,
                   attempt, sends, log_calls, fs, downloads_log>>
    /\ UNCHANGED harnessVars

\* Lines 160-162: aiofiles.open(audio_file_path, 'rb') and the loop's start
OpenAudio(r) ==
    /\ pc[r] = "L160"
    /\ LoopFree
    /\ \/ /\ audio_file' = [audio_file EXCEPT ![r] =
                [open |-> TRUE, path |-> final_audio_file_path[r], pos |-> 0]]
          /\ attempt' = [attempt EXCEPT ![r] = 0]
          /\ pc' = [pc EXCEPT ![r] = "L164"]
       \/ \* open raises: the except of line 180
          /\ pc' = [pc EXCEPT ![r] = "L182"]
          /\ UNCHANGED <<audio_file, attempt>>
    /\ UNCHANGED <<update, youtube_link, final_audio_file_path, coros, sends,
                   replies, log_calls, fs, downloads_log>>
    /\ UNCHANGED harnessVars

\* Lines 163-172: one pass of the loop body: audio_file.read(), send_audio,
\* and either the break or the except clause up to its `if attempt == 2`.
SendAudio(r) ==
    /\ pc[r] = "L164"
    /\ LoopFree
    /\ attempt[r] < MaxAttempts
    /\ LET bytes == ReadAll(fs, audio_file[r])
           atEnd == [audio_file[r] EXCEPT !.pos = Len(fs[audio_file[r].path].data)]
       IN  \/ \* send_audio returned: break, the file is closed, line 178 is next
              /\ sends' = [sends EXCEPT ![r] = Append(@, [audio |-> bytes, ok |-> TRUE])]
              /\ audio_file' = [audio_file EXCEPT ![r] = AExit(@)]
              /\ pc' = [pc EXCEPT ![r] = "L178"]
              /\ UNCHANGED attempt
           \/ \* send_audio raised
              /\ sends' = [sends EXCEPT ![r] = Append(@, [audio |-> bytes, ok |-> FALSE])]
              /\ IF attempt[r] = MaxAttempts - 1
                 THEN /\ pc' = [pc EXCEPT ![r] = "L173"]
                      /\ audio_file' = [audio_file EXCEPT ![r] = atEnd]
                      /\ UNCHANGED attempt
                 ELSE /\ attempt' = [attempt EXCEPT ![r] = @ + 1]
                      /\ audio_file' = [audio_file EXCEPT ![r] = atEnd]
                      /\ UNCHANGED pc
    /\ UNCHANGED <<update, youtube_link, final_audio_file_path, coros, replies,
                   log_calls, fs, downloads_log>>
    /\ UNCHANGED harnessVars

\* Lines 173-176: reply_text(time.sleep(5), "Error: ..."): the text argument
\* is what time.sleep returns, None, and the message is the parse_mode
\* argument.  When the call returns, the user got no failure text, the loop
\* and the `async with` end and line 178 is next; when it raises, the
\* `async with` closes the file and the except of line 180 takes over.
ReplyAfterLastAttempt(r) ==
    /\ pc[r] = "L173"
    /\ LoopFree
    /\ \/ /\ Replied(r, None)
          /\ pc' = [pc EXCEPT ![r] = "L178"]
       \/ /\ pc' = [pc EXCEPT ![r] = "L182"]
          /\ UNCHANGED replies
    /\ audio_file' = [audio_file EXCEPT ![r] = AExit(@)]
    /\ UNCHANGED <<update, youtube_link, final_audio_file_path, coros, attempt,
                   sends, log_calls, fs, downloads_log>>
    /\ UNCHANGED harnessVars

\* A log_user_activity whose success parameter defaults to False.
DefaultSuccessFalse == FALSE

\* success: bool = True, line 37: what line 178 passes by leaving it out
DefaultSuccess == TRUE

LogAfterDelivery(r) ==
    /\ pc[r] = "L178"
    /\ LoopFree
    /\ \E io \in IoOutcomes :
        /\ LogActivity(r, DefaultSuccess, io)
        /\ pc' = [pc EXCEPT ![r] = AfterLog(io, "done")]
    /\ UNCHANGED <<update, youtube_link, final_audio_file_path, coros, audio_file,
                   attempt, sends, replies, fs>>
    /\ UNCHANGED harnessVars

\* Lines 180-182
ReplySendFailed(r) ==
    /\ pc[r] = "L182"
    /\ LoopFree
    /\ \/ /\ Replied(r, SendFailedText)
          /\ pc' = [pc EXCEPT ![r] = "done"]
       \/ /\ pc' = [pc EXCEPT ![r] = "L192"]
          /\ UNCHANGED replies
    /\ UNCHANGED <<update, youtube_link, final_audio_file_path, coros, audio_file,
                   attempt, sends, log_calls, fs, downloads_log>>
    /\ UNCHANGED harnessVars

\* Lines 185-187
ReplyDownloadFailed(r) ==
    /\ pc[r] = "L185"
    /\ LoopFree
    /\ \/ /\ Replied(r, DownloadFailedText)
          /\ pc' = [pc EXCEPT ![r] = "L188"]
       \/ /\ pc' = [pc EXCEPT ![r] = "L192"]
          /\ UNCHANGED replies
    /\ UNCHANGED <<update, youtube_link, final_audio_file_path, coros, audio_file,
                   attempt, sends, log_calls, fs, downloads_log>>
    /\ UNCHANGED harnessVars

\* Line 188
LogDownloadFailed(r) ==
    /\ pc[r] = "L188"
    /\ LoopFree
    /\ \E io \in IoOutcomes :
        /\ LogActivity(r, FALSE, io)
        /\ pc' = [pc EXCEPT ![r] = AfterLog(io, "done")]
    /\ UNCHANGED <<update, youtube_link, final_audio_file_path, coros, audio_file,
                   attempt, sends, replies, fs>>
    /\ UNCHANGED harnessVars

\* Lines 190-192: the reply made in the outer except clause; when it raises
\* (it always does when update.message is None) the exception leaves
\* handle_message.
ReplyUnexpected(r) ==
    /\ pc[r] = "L192"
    /\ LoopFree
    /\ \/ /\ update[r].has_message
          /\ Replied(r, UnexpectedText)
          /\ pc' = [pc EXCEPT ![r] = "done"]
       \/ /\ pc' = [pc EXCEPT ![r] = "raised"]
          /\ UNCHANGED replies
    /\ UNCHANGED <<update, youtube_link, final_audio_file_path, coros, audio_file,
                   attempt, sends, log_calls, fs, downloads_log>>
    /\ UNCHANGED harnessVars

----------------------------------------------------------------------------
(* The validator applied to one string at a time *)

ChooseLocator ==
    /\ vpc = "idle"
    /\ \E l \in Locators : loc' = l
    /\ vpc' = "called"
    /\ UNCHANGED vret
    /\ UNCHANGED pipelineVars
    /\ UNCHANGED progress_out

ReturnVerdict ==
    /\ vpc = "called"
    /\ vret' = validate_url(Assemble(loc))
    /\ vpc' = "returned"
    /\ UNCHANGED loc
    /\ UNCHANGED pipelineVars
    /\ UNCHANGED progress_out

----------------------------------------------------------------------------
(* update_progress applied to the samples of one request, one after another *)

UpdateProgress ==
    /\ Len(progress_out) < MaxProgressCalls
    /\ \E d \in SampleDicts, has_message \in BOOLEAN, io \in IoOutcomes :
          progress_out' =
              Append(progress_out,
                     [d |-> d, out |-> update_progress(d, has_message, io)])
    /\ UNCHANGED validatorVars
    /\ UNCHANGED pipelineVars

----------------------------------------------------------------------------
(* Specifications *)

\* application.run_polling(), line 274: the loop takes new updates and
\* resumes handlers when it is free; the extract_info call that holds it
\* returns; the download thread of line 125 runs beside it.
Next ==
    \E r \in Req :
        \/ Receive(r)
        \/ ReplyInvalid(r)
        \/ LogInvalid(r)
        \/ ReplyStarted(r)
        \/ ExtractInfoCall(r)
        \/ ExtractInfo(r)
        \/ ToolSample(r)
        \/ DownloadReturn(r)
        \/ ReplyNotFound(r)
        \/ ReplyUnable(r)
        \/ ReplyComplete(r)
        \/ OpenAudio(r)
        \/ SendAudio(r)
        \/ ReplyAfterLastAttempt(r)
        \/ LogAfterDelivery(r)
        \/ ReplySendFailed(r)
        \/ ReplyDownloadFailed(r)
        \/ LogDownloadFailed(r)
        \/ ReplyUnexpected(r)

Spec == Init /\ [][Next]_vars

\* What the event loop does for request r once its coroutine is ready: every
\* step of handle_message but the arrival of the message (Receive) and the
\* returns of the extraction tool (ExtractInfo, DownloadReturn), which are
\* the platform's and the tool's to make.
HandlerStep(r) ==
    \/ ReplyInvalid(r)
    \/ LogInvalid(r)
    \/ ReplyStarted(r)
    \/ ExtractInfoCall(r)
    \/ ReplyNotFound(r)
    \/ ReplyUnable(r)
    \/ ReplyComplete(r)
    \/ OpenAudio(r)
    \/ SendAudio(r)
    \/ ReplyAfterLastAttempt(r)
    \/ LogAfterDelivery(r)
    \/ ReplySendFailed(r)
    \/ ReplyDownloadFailed(r)
    \/ LogDownloadFailed(r)
    \/ ReplyUnexpected(r)

\* The event loop resumes a coroutine that stays ready; nothing makes the
\* extraction tool return.
SpecLive == Init /\ [][Next]_vars /\ \A r \in Req : WF_vars(HandlerStep(r))

NextValidate == ChooseLocator \/ ReturnVerdict

SpecValidate == Init /\ [][NextValidate]_vars

NextProgress == UpdateProgress

SpecProgress == Init /\ [][NextProgress]_vars

----------------------------------------------------------------------------
(* What the claims speak of *)

\* handle_message returned ("done") or an exception left it ("raised").
Finished(r) == pc[r] \in {"done", "raised"}

IsRowOf(r, line) == line.kind = "row" /\ line.username = Username(update[r])

\* The outcomes of the data rows of request r in the audit log, in order.
Statuses(r) ==
    LET rows == SelectSeq(downloads_log.lines, LAMBDA line : IsRowOf(r, line))
    IN  [i \in 1..Len(rows) |-> rows[i].status]

\* The outcomes request r handed to log_user_activity, in order: the rows the
\* logger was asked to append, whether or not the file system took them.
Recorded(r) == [i \in 1..Len(log_calls[r]) |-> log_calls[r][i].status]

\* The results of the send_audio attempts of request r, in order.
SendResults(r) == [i \in 1..Len(sends[r]) |-> sends[r][i].ok]

AllThreeFailed(r) == SendResults(r) = <<FALSE, FALSE, FALSE>>

PersistentFailureReported(r) == SendFailedText \in Range(replies[r])

InFlight(r) == pc[r] \notin {"idle", "done", "raised"}

HasArtifactPath(r) == final_audio_file_path[r] \notin {NoPath, DefaultAudioPath}

----------------------------------------------------------------------------
(* Claims *)

\* C1: send_audio is attempted at most 3 times per request, no attempt
\* follows a successful one, and a finished request has reported a
\* persistent failure to the user if and only if all 3 attempts failed.
C1_DeliveryRetryContract ==
    \A r \in Req :
        /\ Len(sends[r]) <= 3
        /\ \A i \in 1..(Len(sends[r]) - 1) : ~sends[r][i].ok
        /\ Finished(r) => (PersistentFailureReported(r) <=> AllThreeFailed(r))

\* C2: a finished request whose 3 send_audio attempts all failed has asked
\* the logger for exactly one audit row, with outcome Failure, and the audit
\* log has no row with outcome Success for it.
C2_ExhaustedRetriesLogFailure ==
    \A r \in Req :
        (Finished(r) /\ AllThreeFailed(r)) =>
            /\ Recorded(r) = <<"Failure">>
            /\ "Success" \notin Range(Statuses(r))

\* C3: every run of handle_message that has returned, on whatever path, has
\* called log_user_activity for exactly one data row, and the audit log has
\* no more than that one row for it.
C3_OneRowPerCompletedRequest ==
    \A r \in Req :
        pc[r] = "done" => (Len(Recorded(r)) = 1 /\ Len(Statuses(r)) <= 1)

\* C4: starting from an absent log file, once log_user_activity has written
\* anything the file holds exactly one header row, and it is the first line.
C4_HeaderWrittenOnce ==
    downloads_log.lines # << >> =>
        /\ Head(downloads_log.lines) = HeaderRow
        /\ Cardinality({ i \in 1..Len(downloads_log.lines) :
                             downloads_log.lines[i] = HeaderRow }) = 1

\* A canonical single-video locator: scheme http or https, an optional www,
\* one of the four supported shapes, an 11-character id, and possibly
\* trailing query parameters.
IsCanonical(l) ==
    /\ l.scheme \in {HttpScheme, HttpsScheme}
    /\ l.idlen = 11
    /\ \/ l.domain = Youtube /\ l.tld = Com /\ l.prefix = WatchV
          /\ l.tail \in {NoChars, ListTail}
       \/ l.domain = Youtu /\ l.tld = Be /\ l.prefix = NoChars /\ l.www = NoChars
          /\ l.tail \in {NoChars, TimeTail}
       \/ l.domain = YoutubeNocookie /\ l.tld = Com /\ l.prefix = EmbedSlash
          /\ l.tail \in {NoChars, TimeTail}
       \/ l.domain = Youtube /\ l.tld = Com /\ l.prefix = EmbedSlash
          /\ l.tail \in {NoChars, TimeTail}

\* C5: validate_url returns true for every canonical single-video locator of
\* each supported shape, with or without trailing query parameters.
C5_CanonicalAccepted ==
    (vpc = "returned" /\ IsCanonical(loc)) => vret

\* The platform's domains: youtube.com, youtu.be, youtube-nocookie.com.
IsPlatformDomain(l) ==
    \/ l.domain = Youtube /\ l.tld = Com
    \/ l.domain = Youtu /\ l.tld = Be
    \/ l.domain = YoutubeNocookie /\ l.tld = Com

\* C6: validate_url returns false for every string with a malformed scheme, a
\* domain that is not one of the platform's, or an id that is not exactly 11
\* characters long.
C6_MalformedRejected ==
    (/\ vpc = "returned"
     /\ \/ loc.scheme = HtpScheme
        \/ ~IsPlatformDomain(loc)
        \/ loc.idlen # 11)
        => ~vret

\* The bytes of the file at path were all written by request r's download.
WrittenOnlyBy(r, path) == \A i \in 1..Len(fs[path].data) : fs[path].data[i] = r

\* C7: two requests in flight at once, from distinct requesters and with the
\* same locator, use distinct artifact paths, and the file at the path of
\* each was written by no download but its own.
C7_DistinctArtifactPaths ==
    \A r1, r2 \in Req :
        (/\ r1 # r2
         /\ InFlight(r1) /\ InFlight(r2)
         /\ Username(update[r1]) # Username(update[r2])
         /\ youtube_link[r1] = youtube_link[r2]
         /\ HasArtifactPath(r1) /\ HasArtifactPath(r2))
            => /\ final_audio_file_path[r1] # final_audio_file_path[r2]
               /\ WrittenOnlyBy(r1, final_audio_file_path[r1])
               /\ WrittenOnlyBy(r2, final_audio_file_path[r2])

\* The message of request r has a text, and validate_url rejects it.
InvalidLink(r) ==
    /\ pc[r] # "idle"
    /\ update[r].has_message
    /\ ~validate_url(youtube_link[r])

\* C8: for a message whose text fails validate_url, neither the extraction
\* tool nor send_audio is ever invoked, and once handle_message has finished
\* the user got the invalid-link reply and the logger was asked for exactly
\* one audit row for the message, with outcome Failure.
C8_InvalidLinkRejectedAndLogged ==
    \A r \in Req :
        InvalidLink(r) =>
            /\ final_audio_file_path[r] = NoPath
            /\ sends[r] = << >>
            /\ Finished(r) =>
                /\ replies[r] = <<InvalidLinkText>>
                /\ Recorded(r) = <<"Failure">>

\* The send failed on attempts 1 and 2 and succeeded on attempt 3.
FailedTwiceThenSent(r) ==
    /\ Len(sends[r]) >= 3
    /\ ~sends[r][1].ok /\ ~sends[r][2].ok /\ sends[r][3].ok

\* C9, as claimed: when the send fails on attempts 1 and 2 and succeeds on
\* attempt 3, there are exactly 3 attempts, no persistent-failure reply, and
\* once handle_message has finished exactly one audit row, with outcome
\* Success.
C9_ThirdAttemptSucceeds ==
    \A r \in Req :
        FailedTwiceThenSent(r) =>
            /\ Len(sends[r]) = 3
            /\ ~PersistentFailureReported(r)
            /\ Finished(r) => Statuses(r) = <<"Success">>

\* C9, amended: when the send fails on attempts 1 and 2 and succeeds on
\* attempt 3, there are exactly 3 attempts, the only replies are the two
\* progress notices, handle_message goes on to line 178 and returns, and
\* it has then called log_user_activity exactly once, with outcome Success:
\* the audit log has exactly one row for the request, with outcome Success,
\* unless the write of the row raised, and then it has none.
C9_ThirdAttemptSucceedsAmended ==
    \A r \in Req :
        FailedTwiceThenSent(r) =>
            /\ Len(sends[r]) = 3
            /\ replies[r] = <<StartedText, CompleteText>>
            /\ pc[r] \in {"L178", "done"}
            /\ pc[r] = "done" =>
                /\ Len(log_calls[r]) = 1
                /\ log_calls[r][1].status = "Success"
                /\ Statuses(r) =
                       IF log_calls[r][1].written THEN <<"Success">> ELSE << >>

\* C9's case: a request that sent on the third attempt, returned, and has
\* its Success row in the audit log.
C9_Witness ==
    \E r \in Req :
        /\ FailedTwiceThenSent(r)
        /\ pc[r] = "done"
        /\ Statuses(r) = <<"Success">>

\* C10: every progress sample the extraction tool has reported to the
\* registered hook during a download has had update_progress run for it.
C10_OneProgressEventPerSample ==
    \A r \in Req : \A i \in 1..Len(coros[r]) : coros[r][i].awaited

\* Request r is in its extraction phase: inside extract_info (line 120) or
\* waiting for the download (line 125).
ExtractionPhase(r) == pc[r] \in {"L120_running", "L125"}

\* C11: while a request is in its extraction phase (metadata extraction and
\* download) its tool invocation does not hold the event loop: the loop is
\* free to start handle_message for another message and to resume others.
C11_ExtractionOffLoop ==
    \A r \in Req : ExtractionPhase(r) => ~LoopHeldBy(r)

\* C12: extraction is bounded by a timeout: a request in its extraction
\* phase always goes on to finish, also when the tool invocation never
\* returns (the work is cancelled and the failure is replied and logged).
C12_ExtractionTimesOut ==
    \A r \in Req : ExtractionPhase(r) ~> Finished(r)

\* The sample gives no usable total: total_bytes is 0, None or missing.
NoTotal(d) == d.is_dict /\ d.total_bytes \in {AbsentV, NoneV, Bytes(0)}

\* C13: for a progress sample whose total_bytes is 0 or absent (None or
\* missing), update_progress raises nothing, computes no percentage and
\* sends no reply to the user.
C13_NoTotalNoPercentage ==
    \A i \in 1..Len(progress_out) :
        NoTotal(progress_out[i].d) =>
            /\ ~progress_out[i].out.raised
            /\ progress_out[i].out.percent = NoPercent
            /\ progress_out[i].out.reply = NoReply

\* C13's case: update_progress was called with a "downloading" sample whose
\* total_bytes is 0, and with one that has no total_bytes.
C13_Witness ==
    \E i, j \in 1..Len(progress_out) :
        /\ progress_out[i].d.status = "downloading"
        /\ progress_out[i].d.total_bytes = Bytes(0)
        /\ progress_out[j].d.status = "downloading"
        /\ progress_out[j].d.total_bytes \in {AbsentV, NoneV}

\* p <= q for two percentages of line 73
PercentLeq(p, q) == p.num * q.den <= q.num * p.den

\* The call made for the i-th sample computed a percentage and sent it to the
\* user, for a sample of the kind the tool reports while it downloads:
\* total_bytes above 0 and downloaded_bytes from 0 to total_bytes.
Forwarded(i) ==
    LET d == progress_out[i].d
    IN  /\ d.is_dict /\ d.status = "downloading"
        /\ d.total_bytes.kind = "int" /\ d.total_bytes.val > 0
        /\ d.downloaded_bytes.kind = "int"
        /\ d.downloaded_bytes.val <= d.total_bytes.val
        /\ progress_out[i].out.reply # NoReply

\* C14: the percentages update_progress computes and sends to the user for
\* the successive samples of one request never decrease.
C14_PercentagesNonDecreasing ==
    \A i, j \in 1..Len(progress_out) :
        (i < j /\ Forwarded(i) /\ Forwarded(j))
            => PercentLeq(progress_out[i].out.reply.percent,
                          progress_out[j].out.reply.percent)

\* Request r is inside the `async with` block of lines 160-176.
InDelivery(r) == pc[r] \in {"L164", "L173"}

\* C15: the handle opened for delivery is open only inside the delivery
\* step: after a successful send, after 3 failed attempts, and after an
\* exception of the failure reply, the handle is closed.
C15_HandleClosedOnEveryExit ==
    \A r \in Req : audio_file[r].open => InDelivery(r)

\* C15's case: one request left the delivery step by a successful send, the
\* other after 3 failed attempts by the exception of the failure reply, and
\* both handles are closed.
C15_Witness ==
    \E a, b \in Req :
        /\ sends[a] # << >> /\ sends[a][Len(sends[a])].ok
        /\ pc[a] \in {"L178", "done"}
        /\ AllThreeFailed(b)
        /\ pc[b] = "L182"
        /\ ~audio_file[a].open /\ ~audio_file[b].open

\* In this step request r called log_user_activity and the write of the row
\* failed.
LogWriteFailed(r) ==
    /\ Len(log_calls'[r]) = Len(log_calls[r]) + 1
    /\ ~log_calls'[r][Len(log_calls'[r])].written

\* C16: a call of log_user_activity whose write fails raises nothing into
\* its caller and sends no reply: handle_message returns right after the
\* call, as it does after a write that succeeded, and the replies are the
\* ones made before the call.
C16_LogFailureIsSilent ==
    [][\A r \in Req : LogWriteFailed(r) =>
            /\ pc'[r] = "done"
            /\ replies'[r] = replies[r]]_vars

\* C16's case: a request whose call of log_user_activity failed to write
\* its row has returned.
C16_Witness ==
    \E r \in Req :
        /\ pc[r] = "done"
        /\ log_calls[r] # << >>
        /\ ~log_calls[r][Len(log_calls[r])].written

\* C17: no failure inside handle_message leaves it as an exception: a run
\* that meets one (a reply call that raises, an update with no message)
\* still returns, after the apology reply.
C17_NoExceptionLeavesHandler ==
    \A r \in Req : pc[r] # "raised"

\* The locator of request r matches the pattern of lines 27-31 once cut at
\* its first "?": what validate_url tests.
MatchesPattern(r) == update[r].has_message /\ FullMatch(SplitQuery0(youtube_link[r]))

\* Request r has entered download_audio and passed its line 86, which comes
\* before every call of the extraction tool.
EnteredDownload(r) == final_audio_file_path[r] # NoPath

\* C18: the extraction tool is invoked only for a locator validate_url
\* accepts, and send_audio only after extraction has returned the path of a
\* file that exists.
C18_OnlyValidatedIsExtractedAndSent ==
    \A r \in Req :
        /\ (EnteredDownload(r) \/ ExtractionPhase(r)) => MatchesPattern(r)
        /\ sends[r] # << >> =>
              /\ MatchesPattern(r)
              /\ HasArtifactPath(r)
              /\ PathExists(fs, final_audio_file_path[r])

\* C18's case: one request has had its artifact sent, and the other, whose
\* text validate_url rejects, has finished.
C18_Witness ==
    \E a, b \in Req :
        /\ sends[a] # << >> /\ sends[a][Len(sends[a])].ok
        /\ InvalidLink(b) /\ Finished(b)

\* C19: every send_audio attempt of a request is handed the same bytes as
\* its first attempt, the whole content of the artifact.
C19_RetriesSendWholeArtifact ==
    \A r \in Req : \A i \in 1..Len(sends[r]) :
        /\ sends[r][i].audio = sends[r][1].audio
        /\ Len(sends[r][i].audio) = ArtifactLen

\* The replies that tell the user the extraction failed
ExtractionFailureTexts == {NotFoundText, UnableText, DownloadFailedText}

\* C20: a request that got as far as calling the extraction tool (its
\* "Download started" reply was delivered) is told at most once that its
\* extraction failed.
C20_OneFailureReply ==
    \A r \in Req :
        StartedText \in Range(replies[r]) =>
            Cardinality({ i \in 1..Len(replies[r]) :
                              replies[r][i] \in ExtractionFailureTexts }) <= 1

====
